---- MODULE Spec2Model ----
(***************************************************************************)
(* LlamaIndexCallbackHandler (src/src/chainlit/llama_index/callbacks.py).  *)
(*                                                                         *)
(* One handler instance, called by a set of threads.  Every callback is    *)
(* modelled statement by statement: a thread's frame holds its position    *)
(* (pc, named after the source line about to run), its arguments and       *)
(* locals.  Spec runs the callbacks one at a time (no two calls overlap);  *)
(* SpecMT lets the calls of different threads interleave freely.           *)
(***************************************************************************)
EXTENDS Integers, Sequences, FiniteSets, TLC

VARIABLES
    context,                 \* self.context, captured by __init__
    event_starts_to_ignore,  \* self.event_starts_to_ignore
    event_ends_to_ignore,    \* self.event_ends_to_ignore
    root_message,            \* self.root_message: the anchor (a message id or None)
    session_root,            \* self.context.session.root_message (owned by the session)
    context_var,             \* chainlit.context.context_var, one slot per thread
    active,                  \* history: the last trace store was start_trace's
    trace_starts,            \* history: start_trace stores since the last end_trace store
    th,                      \* one call frame per thread
    peer                     \* a second handler instance

vars == <<context, event_starts_to_ignore, event_ends_to_ignore, root_message,
          session_root, context_var, active, trace_starts, th, peer>>

----------------------------------------------------------------------------
(* Bounds and input sets *)

MaxNodes == 2

\* start_trace stores are counted up to MaxStarts ("MaxStarts or more")
MaxStarts == 2

None == "None"
Unset == "unset"

Threads == {"main", "worker"}
Contexts == {"ctxA", "ctxB"}
MessageIds == {"msg1", "msg2"}
Texts == {"A", "B"}

RETRIEVE == "retrieve"
LLM == "llm"
QUERY == "query"

EventKinds == {RETRIEVE, LLM, QUERY}

DEFAULT_IGNORE == <<"chunking", "synthesize", "embedding", "node_parsing", "query", "tree">>

IgnoreLists == {DEFAULT_IGNORE, <<LLM, RETRIEVE>>}

\* tuple(xs): a fresh immutable sequence with the same items in the same order
tuple(xs) == [i \in 1..Len(xs) |-> xs[i]]

----------------------------------------------------------------------------
(* Payloads.  Optional[Dict]: <<>> is None, <<d>> is the dict d.            *)

NonePayload == <<>>
Some(d) == <<d>>

NodeWithScore(text) == [node |-> [text |-> text]]

NodeLists == UNION {[1..n -> {NodeWithScore(x) : x \in Texts}] : n \in 0..MaxNodes}

ChatResponse(c) == [message |-> [content |-> c]]

EmptyDict == [k \in {} |-> None]

Dicts ==
    {EmptyDict}
    \cup {[nodes |-> ns] : ns \in NodeLists}
    \cup {[response |-> ChatResponse("42")], [prompt |-> "q"],
          [response |-> ChatResponse("42"), prompt |-> "q"],
          [nodes |-> <<NodeWithScore("A")>>, response |-> ChatResponse(""), prompt |-> "q"]}

Payloads == {NonePayload} \cup {Some(d) : d \in Dicts}

StartPayloads == {NonePayload, Some(EmptyDict)}

\* The inputs of the interleaved specification
MTPayloads ==
    {NonePayload, Some([nodes |-> <<NodeWithScore("A")>>]),
     Some([response |-> ChatResponse("42"), prompt |-> "q"])}

\* The on_event_end calls of the interleaved specification: a RETRIEVE event
\* with a node, an LLM and a QUERY event with a response, an event without payload
MTEvents ==
    {e \in EventKinds \X MTPayloads :
        \/ e[1] = RETRIEVE /\ e[2] # NonePayload /\ "nodes" \in DOMAIN e[2][1]
        \/ e[1] \in {LLM, QUERY} /\ e[2] # NonePayload /\ "response" \in DOMAIN e[2][1]
        \/ e[1] = LLM /\ e[2] = NonePayload}

\* The on_event_start calls of the interleaved specification
MTStartKinds == {LLM, QUERY}

----------------------------------------------------------------------------
(* Message construction, lines 48-54, 83-99 and 102-112.  A message is the  *)
(* record of the keyword arguments the handler passes to Message(...).      *)

\* f"Source {idx}"
SourceName(idx) == "Source " \o ToString(idx)

\* Text(name=..., content=...)
Text(name, content) == [name |-> name, content |-> content]

\* source.node.get_text()
get_text(source) == source.node.text

\* sep.join(xs)
RECURSIVE join(_, _)
join(sep, xs) ==
    IF Len(xs) = 0 THEN ""
    ELSE IF Len(xs) = 1 THEN xs[1]
    ELSE xs[1] \o sep \o join(sep, Tail(xs))

\* Fault variant of Elements: the names count from 1
Elements_from_one(sources) ==
    [i \in 1..Len(sources) |-> Text(SourceName(i), get_text(sources[i]))]

\* lines 83-86: enumerate(sources) counts from 0
Elements(sources) ==
    [i \in 1..Len(sources) |-> Text(SourceName(i - 1), get_text(sources[i]))]

\* Fault variant of SourceRefs: the names count from 1
SourceRefs_from_one(sources) ==
    join("\\, ", [i \in 1..Len(sources) |-> SourceName(i)])

\* lines 87-89: the separator literal "\, " is a backslash, a comma and a space
SourceRefs(sources) ==
    join("\\, ", [i \in 1..Len(sources) |-> SourceName(i - 1)])

\* line 90
RetrieveContent(sources) == "Retrieved the following sources: " \o SourceRefs(sources)

\* payload.get(key) is not None, for a dict d
HasKey(d, key) == key \in DOMAIN d

\* Fault variant of SourcesTruthy: tests the key's presence, not its truthiness
SourcesPresent(d) == HasKey(d, "nodes")

\* line 81-82: sources = payload.get(NODES); if sources
SourcesTruthy(d) == HasKey(d, "nodes") /\ Len(d["nodes"]) > 0

\* lines 102-103: content = response.message.content if response else ""
LLMContent(d) == IF HasKey(d, "response") THEN d["response"].message.content ELSE ""

\* line 110: payload.get(EventPayload.PROMPT)
Prompt(d) == IF HasKey(d, "prompt") THEN d["prompt"] ELSE None

\* Fault variant of PlaceholderMessage: the placeholder is parented to the anchor
PlaceholderMessage_child(event_type) ==
    [author |-> event_type, indent |-> 1, content |-> "", parent_id |-> root_message]

\* lines 49-53
PlaceholderMessage(event_type) ==
    [author |-> event_type, indent |-> 1, content |-> ""]

\* lines 93-98
RetrieveMessage(event_type, d, parent_id) ==
    [content |-> RetrieveContent(d["nodes"]), author |-> event_type,
     elements |-> Elements(d["nodes"]), parent_id |-> parent_id]

\* Fault variant of LLMMessage: the prompt is not passed on
LLMMessage_no_prompt(event_type, d, parent_id) ==
    [content |-> LLMContent(d), author |-> event_type,
     parent_id |-> parent_id, prompt |-> None]

\* lines 106-111
LLMMessage(event_type, d, parent_id) ==
    [content |-> LLMContent(d), author |-> event_type,
     parent_id |-> parent_id, prompt |-> Prompt(d)]

----------------------------------------------------------------------------
(* Call frames *)

IdleFrame ==
    [pc |-> "idle", op |-> "none", event_type |-> "none", payload |-> NonePayload,
     parent_id |-> None,      \* local parent_id of on_event_end
     loaded |-> None,         \* value start_trace loaded, not yet stored
     prior |-> Unset,         \* the thread's context_var slot when the call began
     steps |-> <<>>,          \* what the call did so far, in order
     emitted |-> <<>>,        \* the messages the call handed to send(), in order
     stale |-> FALSE,         \* the anchor was stored to since the call read it
     anchor_at_call |-> None, \* self.root_message when the call began
     value |-> None,          \* the value the call returned
     result |-> "none"]       \* "none", "returned" or "raised"

NewFrame(t, op, event_type, payload, pc) ==
    [IdleFrame EXCEPT !.pc = pc, !.op = op, !.event_type = event_type,
                      !.payload = payload, !.prior = context_var[t],
                      !.anchor_at_call = root_message]

Idle(t) == th[t].pc = "idle"
Quiescent == \A t \in Threads : Idle(t)

\* The positions of on_event_end between its anchor read and its last send
PendingSend == {"L80", "L101"}

Log(steps, what) == Append(steps, what)

\* The second instance before it is constructed.  Once constructed it holds the
\* context it captured, its own root_message attribute, and the root message
\* of its session when that is another session than the first handler's.
PeerAbsent ==
    [constructed |-> FALSE, context |-> None, root_message |-> None,
     session_root |-> None]

----------------------------------------------------------------------------
(* Construction, lines 26-36.  The handler is created in the main thread,   *)
(* whose context_var holds the session context; a worker thread starts with *)
(* no context, or with the context of some session.                         *)

Init ==
    /\ context \in Contexts
    /\ \E xs \in IgnoreLists : event_starts_to_ignore = tuple(xs)
    /\ \E xs \in IgnoreLists : event_ends_to_ignore = tuple(xs)
    /\ root_message = None
    /\ session_root \in {None} \cup MessageIds
    /\ \E c \in {Unset} \cup Contexts :
          context_var = [t \in Threads |-> IF t = "main" THEN context ELSE c]
    /\ active = FALSE
    /\ trace_starts = 0
    /\ th = [t \in Threads |-> IdleFrame]
    /\ peer = PeerAbsent

\* The handler built with its default arguments, in the session ctxA
InitMT ==
    /\ Init
    /\ context = "ctxA"
    /\ event_starts_to_ignore = tuple(DEFAULT_IGNORE)
    /\ event_ends_to_ignore = tuple(DEFAULT_IGNORE)

config == <<context, event_starts_to_ignore, event_ends_to_ignore>>

\* thread t's frame becomes f; nothing else changes
Step(t, f) ==
    /\ th' = [th EXCEPT ![t] = f]
    /\ UNCHANGED <<config, root_message, session_root, context_var, active,
                   trace_starts, peer>>

\* Fault variant of SetContext: the handler takes over the calling thread's
\* context instead of installing its own
SetContext_recapture(t, pc) ==
    /\ context' = context_var[t]
    /\ th' = [th EXCEPT ![t] = [@ EXCEPT !.pc = pc, !.steps = Log(@, "install")]]
    /\ UNCHANGED <<event_starts_to_ignore, event_ends_to_ignore, root_message,
                   session_root, context_var, active, trace_starts, peer>>

\* context_var.set(self.context) in thread t, lines 46 and 76
SetContext(t, pc) ==
    /\ context_var' = [context_var EXCEPT ![t] = context]
    /\ th' = [th EXCEPT ![t] = [@ EXCEPT !.pc = pc, !.steps = Log(@, "install")]]
    /\ UNCHANGED <<config, root_message, session_root, active, trace_starts, peer>>

\* run_sync(Message(...).send()): the message is handed to the send collaborator
Send(t, msg, pc) ==
    Step(t, [th[t] EXCEPT !.pc = pc, !.steps = Log(@, "send"),
                          !.emitted = Append(@, msg)])

\* self.root_message = v by thread t, lines 116 and 125
StoreRoot(t, v, isStart) ==
    /\ root_message' = v
    /\ active' = isStart
    /\ trace_starts' = IF ~isStart THEN 0
                       ELSE IF trace_starts < MaxStarts THEN trace_starts + 1
                       ELSE trace_starts
    /\ th' = [u \in Threads |->
                IF u = t THEN [th[u] EXCEPT !.pc = "done", !.result = "returned",
                                            !.steps = Log(@, "store")]
                ELSE IF th[u].pc \in PendingSend THEN [th[u] EXCEPT !.stale = TRUE]
                ELSE th[u]]
    /\ UNCHANGED <<config, session_root, context_var, peer>>

----------------------------------------------------------------------------
(* on_event_start, lines 38-55 *)

on_event_start_call(t, event_type, payload) ==
    /\ Idle(t)
    /\ Step(t, NewFrame(t, "on_event_start", event_type, payload, "L46"))

\* Fault variant of on_event_start_L46: installs only into an empty slot
on_event_start_L46_if_unset(t) ==
    /\ th[t].pc = "L46"
    /\ IF context_var[t] = Unset
       THEN SetContext(t, "L48")
       ELSE Step(t, [th[t] EXCEPT !.pc = "L48"])

\* line 46
on_event_start_L46(t) ==
    /\ th[t].pc = "L46"
    /\ SetContext(t, "L48")

\* Fault variant of on_event_start_L48: the send is started and not awaited
on_event_start_L48_no_wait(t) ==
    /\ th[t].pc = "L48"
    /\ Send(t, PlaceholderMessage(th[t].event_type), "L55")

\* lines 48-54: the placeholder is handed to send()
on_event_start_L48(t) ==
    /\ th[t].pc = "L48"
    /\ Send(t, PlaceholderMessage(th[t].event_type), "L48_wait")

\* lines 48-54: run_sync returns once the send has completed
on_event_start_L48_done(t) ==
    /\ th[t].pc = "L48_wait"
    /\ Step(t, [th[t] EXCEPT !.pc = "L55", !.steps = Log(@, "sent")])

\* lines 48-54: the send fails; nothing catches the exception
on_event_start_L48_raise(t) ==
    /\ th[t].pc = "L48_wait"
    /\ Step(t, [th[t] EXCEPT !.pc = "raised", !.result = "raised",
                             !.steps = Log(@, "send_failed")])

\* line 55
on_event_start_L55(t) ==
    /\ th[t].pc = "L55"
    /\ Step(t, [th[t] EXCEPT !.pc = "done", !.result = "returned", !.value = ""])

----------------------------------------------------------------------------
(* on_event_end, lines 57-112 *)

on_event_end_call(t, event_type, payload) ==
    /\ Idle(t)
    /\ Step(t, NewFrame(t, "on_event_end", event_type, payload, "L65"))

\* lines 65-66
on_event_end_L65(t) ==
    /\ th[t].pc = "L65"
    /\ IF th[t].payload = NonePayload
       THEN Step(t, [th[t] EXCEPT !.pc = "done", !.result = "returned",
                                  !.steps = Log(@, "payload_check")])
       ELSE Step(t, [th[t] EXCEPT !.pc = "L76", !.steps = Log(@, "payload_check")])

\* Fault variant of on_event_end_L76: the context is not installed
on_event_end_L76_skip(t) ==
    /\ th[t].pc = "L76"
    /\ Step(t, [th[t] EXCEPT !.pc = "L78"])

\* line 76
on_event_end_L76(t) ==
    /\ th[t].pc = "L76"
    /\ SetContext(t, "L78")

\* Fault variant of on_event_end_L78: with no anchor now, the anchor the call
\* saw on entry is used
on_event_end_L78_entry(t) ==
    /\ th[t].pc = "L78"
    /\ IF root_message # None
       THEN Step(t, [th[t] EXCEPT !.pc = "L78_id", !.steps = Log(@, "anchor_read")])
       ELSE Step(t, [th[t] EXCEPT !.pc = "L80", !.parent_id = th[t].anchor_at_call,
                                  !.stale = FALSE, !.steps = Log(@, "anchor_read")])

\* Fault variant of on_event_end_L78: with no anchor, the session's root
\* message is adopted as the anchor
on_event_end_L78_adopt(t) ==
    /\ th[t].pc = "L78"
    /\ IF root_message # None
       THEN Step(t, [th[t] EXCEPT !.pc = "L78_id", !.steps = Log(@, "anchor_read")])
       ELSE /\ root_message' = session_root
            /\ th' = [th EXCEPT ![t] = [@ EXCEPT !.pc = "L80", !.parent_id = session_root,
                                                 !.stale = FALSE,
                                                 !.steps = Log(@, "anchor_read")]]
            /\ UNCHANGED <<config, session_root, context_var, active, trace_starts, peer>>

\* line 78, the condition: ... if self.root_message else None
on_event_end_L78(t) ==
    /\ th[t].pc = "L78"
    /\ IF root_message # None
       THEN Step(t, [th[t] EXCEPT !.pc = "L78_id", !.steps = Log(@, "anchor_read")])
       ELSE Step(t, [th[t] EXCEPT !.pc = "L80", !.parent_id = None, !.stale = FALSE,
                                  !.steps = Log(@, "anchor_read")])

\* Fault variant of on_event_end_L78_id: the id of the session's root message
\* is taken instead of the anchor's
on_event_end_L78_id_session(t) ==
    /\ th[t].pc = "L78_id"
    /\ Step(t, [th[t] EXCEPT !.pc = "L80", !.parent_id = session_root,
                             !.stale = FALSE])

\* line 78, the value: self.root_message.id, a second load of the attribute;
\* None has no id (AttributeError)
on_event_end_L78_id(t) ==
    /\ th[t].pc = "L78_id"
    /\ IF root_message # None
       THEN Step(t, [th[t] EXCEPT !.pc = "L80", !.parent_id = root_message,
                                  !.stale = FALSE])
       ELSE Step(t, [th[t] EXCEPT !.pc = "raised", !.result = "raised"])

\* lines 80-99: the RETRIEVE branch
on_event_end_L80(t) ==
    /\ th[t].pc = "L80"
    /\ LET d == th[t].payload[1] IN
       IF th[t].event_type = RETRIEVE /\ SourcesTruthy(d)
       THEN Send(t, RetrieveMessage(th[t].event_type, d, th[t].parent_id), "L92_wait")
       ELSE Step(t, [th[t] EXCEPT !.pc = "L101"])

\* lines 92-99: run_sync returns once the send has completed
on_event_end_L92_done(t) ==
    /\ th[t].pc = "L92_wait"
    /\ Step(t, [th[t] EXCEPT !.pc = "L101", !.steps = Log(@, "sent")])

\* Fault variant of on_event_end_L92_raise: a failed send is tried again
on_event_end_L92_retry(t) ==
    /\ th[t].pc = "L92_wait"
    /\ Step(t, [th[t] EXCEPT !.pc = "L80", !.steps = Log(@, "send_failed")])

\* lines 92-99: the send fails; nothing catches the exception
on_event_end_L92_raise(t) ==
    /\ th[t].pc = "L92_wait"
    /\ Step(t, [th[t] EXCEPT !.pc = "raised", !.result = "raised",
                             !.steps = Log(@, "send_failed")])

\* Fault variant of on_event_end_L101: every kind but RETRIEVE takes the branch
on_event_end_L101_else(t) ==
    /\ th[t].pc = "L101"
    /\ LET d == th[t].payload[1] IN
       IF th[t].event_type # RETRIEVE
       THEN Send(t, LLMMessage(th[t].event_type, d, th[t].parent_id), "L105_wait")
       ELSE Step(t, [th[t] EXCEPT !.pc = "done", !.result = "returned"])

\* lines 101-112: the LLM branch
on_event_end_L101(t) ==
    /\ th[t].pc = "L101"
    /\ LET d == th[t].payload[1] IN
       IF th[t].event_type = LLM
       THEN Send(t, LLMMessage(th[t].event_type, d, th[t].parent_id), "L105_wait")
       ELSE Step(t, [th[t] EXCEPT !.pc = "done", !.result = "returned"])

\* lines 105-112: run_sync returns once the send has completed, then the method ends
on_event_end_L105_done(t) ==
    /\ th[t].pc = "L105_wait"
    /\ Step(t, [th[t] EXCEPT !.pc = "done", !.result = "returned",
                             !.steps = Log(@, "sent")])

\* lines 105-112: the send fails; nothing catches the exception
on_event_end_L105_raise(t) ==
    /\ th[t].pc = "L105_wait"
    /\ Step(t, [th[t] EXCEPT !.pc = "raised", !.result = "raised",
                             !.steps = Log(@, "send_failed")])

----------------------------------------------------------------------------
(* start_trace, lines 114-116, and end_trace, lines 118-125 *)

start_trace_call(t) ==
    /\ Idle(t)
    /\ Step(t, NewFrame(t, "start_trace", "none", NonePayload, "L116"))

\* Fault variant of start_trace_L116: the root message is looked up through
\* the calling thread's context_var instead of the captured context
start_trace_L116_ambient(t) ==
    /\ th[t].pc = "L116"
    /\ Step(t, [th[t] EXCEPT !.pc = "L116_store",
                             !.loaded = IF context_var[t] = context
                                        THEN session_root ELSE None,
                             !.steps = Log(@, "load")])

\* line 116, right-hand side: self.context.session.root_message
start_trace_L116(t) ==
    /\ th[t].pc = "L116"
    /\ Step(t, [th[t] EXCEPT !.pc = "L116_store", !.loaded = session_root,
                             !.steps = Log(@, "load")])

\* Fault variant of start_trace_L116_store: an anchor already set is kept
start_trace_L116_store_if_unset(t) ==
    /\ th[t].pc = "L116_store"
    /\ StoreRoot(t, IF root_message # None THEN root_message ELSE th[t].loaded, TRUE)

\* line 116, the assignment to self.root_message
start_trace_L116_store(t) ==
    /\ th[t].pc = "L116_store"
    /\ StoreRoot(t, th[t].loaded, TRUE)

end_trace_call(t) ==
    /\ Idle(t)
    /\ Step(t, NewFrame(t, "end_trace", "none", NonePayload, "L125"))

\* Fault variant of end_trace_L125: the anchor is left as it is
end_trace_L125_keep(t) ==
    /\ th[t].pc = "L125"
    /\ StoreRoot(t, root_message, FALSE)

\* line 125
end_trace_L125(t) ==
    /\ th[t].pc = "L125"
    /\ StoreRoot(t, None, FALSE)

----------------------------------------------------------------------------
(* The callers *)

\* the call is over (returned or raised): its frame is dropped
Return(t) ==
    /\ th[t].pc \in {"done", "raised"}
    /\ Step(t, IdleFrame)

\* the session sets, replaces or drops its root message (line 116 reads it)
session_root_set(m) ==
    /\ session_root # m
    /\ session_root' = m
    /\ UNCHANGED <<config, root_message, context_var, active, trace_starts, th, peer>>

\* one statement of the call thread t is in
Statement(t) ==
    \/ on_event_start_L46(t)
    \/ on_event_start_L48(t)
    \/ on_event_start_L48_done(t)
    \/ on_event_start_L48_raise(t)
    \/ on_event_start_L55(t)
    \/ on_event_end_L65(t)
    \/ on_event_end_L76(t)
    \/ on_event_end_L78(t)
    \/ on_event_end_L78_id(t)
    \/ on_event_end_L80(t)
    \/ on_event_end_L92_done(t)
    \/ on_event_end_L92_raise(t)
    \/ on_event_end_L101(t)
    \/ on_event_end_L105_done(t)
    \/ on_event_end_L105_raise(t)
    \/ start_trace_L116(t)
    \/ start_trace_L116_store(t)
    \/ end_trace_L125(t)
    \/ Return(t)

\* Calls one at a time: a call begins, and the session changes, only while no
\* call is in progress
Next ==
    \/ \E t \in Threads : Statement(t)
    \/ /\ Quiescent
       /\ \E t \in Threads :
            \/ \E k \in EventKinds, p \in StartPayloads : on_event_start_call(t, k, p)
            \/ \E k \in EventKinds, p \in Payloads : on_event_end_call(t, k, p)
            \/ start_trace_call(t)
            \/ end_trace_call(t)
    \/ /\ Quiescent
       /\ \E m \in {None} \cup MessageIds : session_root_set(m)

Spec == Init /\ [][Next]_vars

\* Calls of different threads interleave statement by statement
NextMT ==
    \/ \E t \in Threads : Statement(t)
    \/ \E t \in Threads :
         \/ \E k \in MTStartKinds : on_event_start_call(t, k, NonePayload)
         \/ \E e \in MTEvents : on_event_end_call(t, e[1], e[2])
         \/ start_trace_call(t)
         \/ end_trace_call(t)
    \/ \E m \in {None} \cup MessageIds : session_root_set(m)

SpecMT == InitMT /\ [][NextMT]_vars

----------------------------------------------------------------------------
(* A second instance of the handler, next to the first.  Its callbacks are  *)
(* taken whole; the first handler's start_trace and end_trace run as above. *)

first == <<config, root_message, session_root, context_var, active, trace_starts, th>>

\* the root message of the session the second instance belongs to
PeerSessionRoot ==
    IF peer.context = context THEN session_root ELSE peer.session_root

\* lines 26-36: LlamaIndexCallbackHandler() in a thread whose context is c
peer_init(c) ==
    /\ ~peer.constructed
    /\ peer' = [peer EXCEPT !.constructed = TRUE, !.context = c, !.root_message = None]
    /\ UNCHANGED first

\* Fault variant of peer_start_trace: the anchor is kept on the class, so the
\* first handler sees it too
peer_start_trace_on_class ==
    /\ peer.constructed
    /\ peer' = [peer EXCEPT !.root_message = PeerSessionRoot]
    /\ root_message' = PeerSessionRoot
    /\ UNCHANGED <<config, session_root, context_var, active, trace_starts, th>>

\* lines 114-116 on the second instance
peer_start_trace ==
    /\ peer.constructed
    /\ peer' = [peer EXCEPT !.root_message = PeerSessionRoot]
    /\ UNCHANGED first

\* lines 118-125 on the second instance
peer_end_trace ==
    /\ peer.constructed
    /\ peer' = [peer EXCEPT !.root_message = None]
    /\ UNCHANGED first

\* the second instance's session sets, replaces or drops its root message
peer_session_root_set(m) ==
    /\ peer.constructed
    /\ peer.context # context
    /\ peer.session_root # m
    /\ peer' = [peer EXCEPT !.session_root = m]
    /\ UNCHANGED first

NextInst ==
    \/ \E t \in Threads :
          \/ start_trace_L116(t)
          \/ start_trace_L116_store(t)
          \/ end_trace_L125(t)
          \/ Return(t)
    \/ /\ Quiescent
       /\ \E t \in Threads : start_trace_call(t) \/ end_trace_call(t)
    \/ /\ Quiescent
       /\ \E m \in {None} \cup MessageIds : session_root_set(m)
    \/ \E c \in Contexts : peer_init(c)
    \/ peer_start_trace
    \/ peer_end_trace
    \/ \E m \in {None} \cup MessageIds : peer_session_root_set(m)

SpecInst == Init /\ [][NextInst]_vars

----------------------------------------------------------------------------
(* Properties *)

\* x is an item of the tuple tup
Contains(tup, x) == \E i \in 1..Len(tup) : tup[i] = x

Done(t, op) == th[t].op = op /\ th[t].pc = "done"

Count(seq, x) == Cardinality({i \in DOMAIN seq : seq[i] = x})

\* the message carries a parent
ParentSet(m) == "parent_id" \in DOMAIN m /\ m.parent_id # None

\* thread t is in (or just out of) an on_event_end RETRIEVE call whose payload
\* holds at least one node
RetrieveWithNodes(t) ==
    /\ th[t].op = "on_event_end"
    /\ th[t].event_type = RETRIEVE
    /\ th[t].payload # NonePayload
    /\ "nodes" \in DOMAIN th[t].payload[1]
    /\ Len(th[t].payload[1].nodes) >= 1

\* C1: for every event kind in the configured start-ignore set, an
\* on_event_start call with that kind hands no message to send().
C1_StartIgnoredEmitsNothing ==
    \A t \in Threads :
        (th[t].op = "on_event_start" /\ Contains(event_starts_to_ignore, th[t].event_type))
            => th[t].emitted = <<>>

\* C2: for every event kind in the configured end-ignore set, an on_event_end
\* call with that kind hands no message to send(), whatever the payload.
C2_EndIgnoredEmitsNothing ==
    \A t \in Threads :
        (th[t].op = "on_event_end" /\ Contains(event_ends_to_ignore, th[t].event_type))
            => th[t].emitted = <<>>

\* C3: right after end_trace the anchor is None; right after start_trace the
\* anchor is the session's root message, None when the session has none.
C3_AnchorAfterTrace ==
    \A t \in Threads :
        /\ Done(t, "end_trace") => root_message = None
        /\ Done(t, "start_trace") => root_message = session_root

C3_Witness ==
    \E t \in Threads : Done(t, "start_trace") /\ root_message \in MessageIds

\* C4: the anchor is non-None only while a trace is Active (the last trace
\* store was start_trace's), under every interleaving of the four callbacks.
C4_AnchorOnlyWhileActive == root_message # None => active

C4_Witness ==
    /\ active
    /\ root_message \in MessageIds
    /\ \E t, u \in Threads :
          /\ th[t].op = "on_event_end" /\ th[t].pc = "L92_wait"
          /\ th[u].op = "end_trace" /\ th[u].pc = "L125"

\* thread t hands a message to send() in this step
HandOff(t) == Len(th'[t].emitted) = Len(th[t].emitted) + 1
Handed(t) == th'[t].emitted[Len(th'[t].emitted)]

\* C5 as stated: every message with a parent_id has, at the moment it is handed
\* to send(), the handler's current anchor as its parent_id, under every
\* interleaving with start_trace and end_trace.
C5_ParentIsCurrentAnchor ==
    [][\A t \in Threads :
          (HandOff(t) /\ ParentSet(Handed(t))) => Handed(t).parent_id = root_message]_vars

\* C5 amended: every message with a parent_id carries the anchor its call read
\* at line 78; that is the handler's current anchor at the hand-off unless a
\* start_trace or end_trace stored to the anchor between that read and the
\* hand-off.
C5_ParentIsAnchorRead ==
    [][\A t \in Threads :
          (HandOff(t) /\ ParentSet(Handed(t))) =>
              /\ Handed(t).parent_id = th[t].parent_id
              /\ ~th[t].stale => Handed(t).parent_id = root_message]_vars

C5_Witness ==
    \E t, u \in Threads :
        /\ th[t].op = "on_event_end" /\ th[t].pc = "L105_wait"
        /\ ~th[t].stale
        /\ ParentSet(th[t].emitted[1])
        /\ th[u].op = "end_trace" /\ th[u].pc = "L125"

\* C6: every on_event_start call, whatever the calling thread's context was,
\* installs the captured context in that thread's slot exactly once, and
\* before the call's send.
C6_StartInstallsOnceBeforeSend ==
    \A t \in Threads :
        th[t].op = "on_event_start" =>
            /\ Count(th[t].steps, "install") = (IF th[t].pc = "L46" THEN 0 ELSE 1)
            /\ \A i \in DOMAIN th[t].steps :
                  th[t].steps[i] = "send" => \E j \in 1..(i - 1) : th[t].steps[j] = "install"
            /\ th[t].emitted # <<>> => context_var[t] = context
            /\ th[t].pc = "done" => Count(th[t].steps, "send") = 1

C6_Witness ==
    \E t, u \in Threads :
        /\ Done(t, "on_event_start")
        /\ th[t].prior \in Contexts \ {context}
        /\ context_var[t] = context
        /\ th[u].op = "on_event_start" /\ th[u].pc = "L48_wait"
        /\ th[u].prior = context

\* C7 as stated: on every on_event_start and on_event_end invocation the
\* captured context is installed before anything else the invocation does.
C7_InstallFirstAlways ==
    \A t \in Threads :
        th[t].op \in {"on_event_start", "on_event_end"} =>
            /\ th[t].steps # <<>> => th[t].steps[1] = "install"
            /\ th[t].pc = "done" => Count(th[t].steps, "install") = 1

\* C7 amended: on every on_event_start invocation, and on every on_event_end
\* invocation whose payload is not None, the captured context is installed
\* before the anchor read and before any send; on_event_end checks the payload
\* first, and with a None payload it returns without installing anything.
C7_InstallBeforeReadAndSend ==
    \A t \in Threads :
        /\ th[t].op = "on_event_start" =>
              /\ th[t].steps # <<>> => th[t].steps[1] = "install"
              /\ th[t].pc = "done" => Count(th[t].steps, "install") = 1
        /\ th[t].op = "on_event_end" =>
              /\ th[t].steps # <<>> => th[t].steps[1] = "payload_check"
              /\ (th[t].payload # NonePayload /\ Len(th[t].steps) >= 2) =>
                    th[t].steps[2] = "install"
              /\ (th[t].payload # NonePayload /\ th[t].pc = "done") =>
                    Count(th[t].steps, "install") = 1
              /\ (th[t].payload = NonePayload /\ th[t].pc = "done") =>
                    /\ th[t].steps = <<"payload_check">>
                    /\ context_var[t] = th[t].prior

C7_Witness ==
    \E t \in Threads :
        /\ Done(t, "on_event_end")
        /\ th[t].payload = NonePayload
        /\ context_var[t] # context

\* C8: an on_event_end RETRIEVE call with n >= 1 nodes emits exactly one
\* message; it has n attachments in node order, the i-th (from 0) named
\* "Source i" and holding the i-th node's text; its author is the event kind
\* and its parent_id the anchor (None when no trace is Active).
C8_RetrieveMessage ==
    \A t \in Threads :
        RetrieveWithNodes(t) =>
            /\ Len(th[t].emitted) <= 1
            /\ th[t].pc = "done" =>
                  /\ Len(th[t].emitted) = 1
                  /\ LET m == th[t].emitted[1]
                         nodes == th[t].payload[1].nodes
                     IN /\ Len(m.elements) = Len(nodes)
                        /\ \A i \in 1..Len(nodes) :
                              m.elements[i] = [name |-> "Source " \o ToString(i - 1),
                                               content |-> nodes[i].node.text]
                        /\ m.author = RETRIEVE
                        /\ m.parent_id = root_message
                        /\ ~active => m.parent_id = None

C8_Witness ==
    \E t \in Threads :
        /\ RetrieveWithNodes(t)
        /\ th[t].pc = "done"
        /\ Len(th[t].payload[1].nodes) >= 2
        /\ th[t].payload[1].nodes[1] # th[t].payload[1].nodes[2]
        /\ th[t].emitted[1].parent_id \in MessageIds

\* "Source 0" sep "Source 1" sep ... "Source n-1"
RECURSIVE NamesList(_, _)
NamesList(n, sep) ==
    IF n = 1 THEN "Source 0"
    ELSE NamesList(n - 1, sep) \o sep \o "Source " \o ToString(n - 1)

\* C9 as stated: the content of the message of a RETRIEVE call with n >= 1
\* nodes is "Retrieved the following sources: " followed by "Source 0" ...
\* "Source n-1", consecutive names separated by a comma and one space.
C9_ContentCommaSpace ==
    \A t \in Threads :
        (RetrieveWithNodes(t) /\ th[t].emitted # <<>>) =>
            th[t].emitted[1].content =
                "Retrieved the following sources: "
                    \o NamesList(Len(th[t].payload[1].nodes), ", ")

\* C9 amended: ... consecutive names separated by a backslash, a comma and one
\* space (the separator literal of line 87).
C9_ContentBackslashCommaSpace ==
    \A t \in Threads :
        (RetrieveWithNodes(t) /\ th[t].emitted # <<>>) =>
            th[t].emitted[1].content =
                "Retrieved the following sources: "
                    \o NamesList(Len(th[t].payload[1].nodes), "\\, ")

C9_Witness ==
    \E t \in Threads :
        /\ RetrieveWithNodes(t)
        /\ th[t].pc = "done"
        /\ Len(th[t].payload[1].nodes) >= 2
        /\ th[t].emitted[1].content = "Retrieved the following sources: Source 0\\, Source 1"

\* C10: an on_event_end RETRIEVE call whose payload is present, with the nodes
\* key absent or mapped to an empty sequence, emits no message.
C10_RetrieveWithoutNodesEmitsNothing ==
    \A t \in Threads :
        (/\ th[t].op = "on_event_end"
         /\ th[t].event_type = RETRIEVE
         /\ th[t].payload # NonePayload
         /\ IF "nodes" \in DOMAIN th[t].payload[1]
            THEN th[t].payload[1].nodes = <<>>
            ELSE TRUE)
            => th[t].emitted = <<>>

C10_Witness ==
    \E t \in Threads :
        /\ Done(t, "on_event_end")
        /\ th[t].event_type = RETRIEVE
        /\ th[t].payload = Some([nodes |-> <<>>])
        /\ th[t].emitted = <<>>

\* thread t is in (or just out of) an on_event_end LLM call with a payload
LLMWithPayload(t) ==
    /\ th[t].op = "on_event_end"
    /\ th[t].event_type = LLM
    /\ th[t].payload # NonePayload

\* C11: an on_event_end LLM call with a payload emits exactly one message:
\* author the event kind, parent_id the anchor, prompt the payload's prompt
\* (None when absent), content the response's message content, or "" when the
\* payload has no response.
C11_LLMMessage ==
    \A t \in Threads :
        LLMWithPayload(t) =>
            /\ Len(th[t].emitted) <= 1
            /\ th[t].pc = "done" =>
                  /\ Len(th[t].emitted) = 1
                  /\ LET m == th[t].emitted[1]
                         d == th[t].payload[1]
                     IN /\ m.author = LLM
                        /\ m.parent_id = root_message
                        /\ m.prompt = (IF "prompt" \in DOMAIN d THEN d.prompt ELSE None)
                        /\ m.content = (IF "response" \in DOMAIN d
                                        THEN d.response.message.content ELSE "")
                        /\ DOMAIN m = {"author", "parent_id", "prompt", "content"}

C11_Witness ==
    \E t \in Threads :
        /\ LLMWithPayload(t)
        /\ th[t].pc = "done"
        /\ th[t].payload = Some([prompt |-> "q"])
        /\ th[t].emitted[1].content = ""
        /\ th[t].emitted[1].prompt = "q"
        /\ th[t].emitted[1].parent_id \in MessageIds

\* C12: an on_event_end call whose payload is None, or whose kind is neither
\* RETRIEVE nor LLM, emits no message, raises no error and leaves the anchor
\* as it was.
C12_OtherEventsAreNoOps ==
    \A t \in Threads :
        (/\ th[t].op = "on_event_end"
         /\ \/ th[t].payload = NonePayload
            \/ th[t].event_type \notin {RETRIEVE, LLM})
            => /\ th[t].emitted = <<>>
               /\ th[t].result # "raised"
               /\ root_message = th[t].anchor_at_call

C12_Witness ==
    \E t \in Threads :
        /\ Done(t, "on_event_end")
        /\ th[t].event_type = QUERY
        /\ th[t].payload # NonePayload
        /\ {"nodes", "response", "prompt"} \subseteq DOMAIN th[t].payload[1]
        /\ root_message \in MessageIds

\* C13: an on_event_start call for a kind outside the start-ignore set emits
\* exactly one placeholder: author the event kind, content "", indent 1 and no
\* parent_id, Idle or Active, and returns "".
C13_Placeholder ==
    \A t \in Threads :
        (th[t].op = "on_event_start" /\ ~Contains(event_starts_to_ignore, th[t].event_type))
            => /\ Len(th[t].emitted) <= 1
               /\ th[t].pc = "done" =>
                     /\ th[t].emitted =
                           <<[author |-> th[t].event_type, content |-> "", indent |-> 1]>>
                     /\ th[t].value = ""

C13_Witness ==
    \E t \in Threads :
        /\ Done(t, "on_event_start")
        /\ ~Contains(event_starts_to_ignore, th[t].event_type)
        /\ active
        /\ root_message \in MessageIds
        /\ Len(th[t].emitted) = 1

\* C14: a callback that started a send does not return before that send has
\* completed: while the send is outstanding the call has not returned, and a
\* call that returned completed every send it started.
C14_ReturnAfterSendCompletes ==
    \A t \in Threads :
        /\ (th[t].steps # <<>> /\ th[t].steps[Len(th[t].steps)] = "send")
              => th[t].result = "none"
        /\ th[t].result = "returned" =>
              \A i \in DOMAIN th[t].steps :
                  th[t].steps[i] = "send" =>
                      (i < Len(th[t].steps) /\ th[t].steps[i + 1] = "sent")

C14_Witness ==
    \E t \in Threads :
        /\ Done(t, "on_event_start")
        /\ th[t].steps = <<"install", "send", "sent">>

\* C15: when the send fails, the call raises: it made exactly one send attempt
\* for the message (no retry, no catch), and the anchor is what it was before
\* the call.
C15_FailedSendPropagates ==
    \A t \in Threads :
        (th[t].op \in {"on_event_start", "on_event_end"}
         /\ Count(th[t].steps, "send_failed") > 0)
            => /\ th[t].result = "raised"
               /\ th[t].pc = "raised"
               /\ Count(th[t].steps, "send") = 1
               /\ Len(th[t].emitted) = 1
               /\ th[t].steps[Len(th[t].steps)] = "send_failed"
               /\ root_message = th[t].anchor_at_call

C15_Witness ==
    \E t \in Threads :
        /\ th[t].op = "on_event_end"
        /\ th[t].pc = "raised"
        /\ th[t].event_type = RETRIEVE
        /\ root_message \in MessageIds
        /\ Count(th[t].steps, "send_failed") = 1

\* C16: a start_trace while the handler is already Active overwrites the
\* anchor with the session's root message as read by that call (no stack of
\* anchors), and one end_trace then leaves the handler Idle with a None
\* anchor, however many start_trace calls came before it.
C16_RestartOverwrites ==
    \A t \in Threads :
        /\ (Done(t, "start_trace") /\ trace_starts >= 2) =>
              (root_message = session_root /\ active)
        /\ Done(t, "end_trace") =>
              (root_message = None /\ ~active /\ trace_starts = 0)

C16_Witness ==
    \E t \in Threads :
        /\ Done(t, "start_trace")
        /\ trace_starts >= 2
        /\ th[t].anchor_at_call \in MessageIds
        /\ root_message \in MessageIds
        /\ root_message # th[t].anchor_at_call

EventCallbacks == {"on_event_start", "on_event_end"}

\* C17: the parent_id of an on_event_end message is the anchor as line 78
\* finds it, not as it was when the call was invoked: a call reads None, and
\* emits with a None parent_id, exactly when the anchor is None at its read,
\* also when the anchor was set at the invocation and end_trace cleared it since.
C17_ParentIsAnchorAtRead ==
    [][\A t \in Threads :
          th[t].op = "on_event_end" =>
              /\ (th[t].pc = "L78" /\ th'[t].pc = "L80") =>
                    (root_message = None /\ th'[t].parent_id = None)
              /\ (th[t].pc = "L78_id" /\ th'[t].pc = "L80") =>
                    (root_message # None /\ th'[t].parent_id = root_message)
              /\ HandOff(t) => Handed(t).parent_id = th[t].parent_id]_vars

\* the interleaving of C17: an on_event_end for RETRIEVE or LLM, invoked with an
\* anchor set, has emitted its message with a None parent_id after an
\* end_trace of the other thread cleared the anchor
C17_Witness ==
    \E t, u \in Threads :
        /\ th[t].op = "on_event_end"
        /\ th[t].event_type \in {RETRIEVE, LLM}
        /\ th[t].anchor_at_call \in MessageIds
        /\ th[t].emitted # <<>>
        /\ th[t].emitted[1].parent_id = None
        /\ Done(u, "end_trace")
        /\ th[u].anchor_at_call \in MessageIds
        /\ root_message = None

\* C19: no statement of on_event_start or on_event_end changes the anchor; the
\* anchor changes only by the store of start_trace or of end_trace.
C19_EventsNeverWriteAnchor ==
    [][/\ \A t \in Threads :
             (th'[t].pc # th[t].pc /\ (th[t].op \in EventCallbacks \/ th'[t].op \in EventCallbacks))
                 => root_message' = root_message
       /\ root_message' # root_message =>
             \E u \in Threads :
                 /\ th[u].op \in {"start_trace", "end_trace"}
                 /\ th[u].pc \in {"L116_store", "L125"}
                 /\ th'[u].pc = "done"]_vars

C19_Witness ==
    \E t, u \in Threads :
        /\ Done(t, "on_event_end")
        /\ th[t].emitted # <<>>
        /\ th[t].anchor_at_call = None
        /\ session_root \in MessageIds
        /\ root_message = None
        /\ Done(u, "on_event_start")

\* C20: the captured context and both ignore sets never change after
\* construction, whatever callbacks run.
C20_ConfigurationIsFixed ==
    [][/\ context' = context
       /\ event_starts_to_ignore' = event_starts_to_ignore
       /\ event_ends_to_ignore' = event_ends_to_ignore]_vars

C20_Witness ==
    \E t \in Threads :
        /\ Done(t, "on_event_end")
        /\ th[t].prior \in Contexts \ {context}
        /\ context_var[t] = context
        /\ th[t].emitted # <<>>
        /\ trace_starts >= 1
        /\ event_ends_to_ignore = <<LLM, RETRIEVE>>

\* C18: the anchor is kept per instance: a step of one handler's start_trace
\* or end_trace leaves the other handler's anchor as it is, and a handler is
\* constructed with a None anchor whatever the other handler's anchor is.
C18_AnchorPerInstance ==
    [][/\ peer' # peer => root_message' = root_message
       /\ root_message' # root_message => peer' = peer
       /\ (~peer.constructed /\ peer'.constructed) => peer'.root_message = None]_vars

C18_Witness ==
    /\ peer.constructed
    /\ peer.context = context
    /\ peer.root_message \in MessageIds
    /\ root_message = None
    /\ \E t \in Threads : Done(t, "end_trace") /\ th[t].anchor_at_call \in MessageIds

====
